---- MODULE Spec2Model ----
(***************************************************************************)
(* A model of server/push/fcm/push_fcm.go: the FCM push handler.           *)
(*                                                                         *)
(* The handler owns two buffered channels (input, channel) and a one-slot  *)
(* stop channel.  A control loop goroutine receives from the three         *)
(* channels and starts one goroutine per item: sendFcm for a receipt,      *)
(* processSubscription for a channel request.  A goroutine is modelled as  *)
(* a task record whose pc is its position in the function; every call to   *)
(* an external collaborator (the FCM client, the device store, the         *)
(* lookups) is a step of its own, so that tasks interleave at those calls. *)
(***************************************************************************)
EXTENDS Integers, Sequences, FiniteSets, TLC

(***************************************************************************)
(* Program constants.                                                      *)
(***************************************************************************)
\* push_fcm.go:30  bufferSize = 1024, the capacity of input and channel.
bufferSize == 1024
\* push_fcm.go:36  subBatchSize = 1000, the FCM limit of a sub/unsub batch.
subBatchSize == 1000

(***************************************************************************)
(* Bounds of the model.                                                    *)
(***************************************************************************)
\* The channels of the model hold at most MaxQueue items: the capacity is
\* bufferSize scaled down, so that a full queue is within reach.
MaxQueue == 1
\* Submissions (accepted or dropped) made by the host in one behaviour.
MaxSubmit == 2
\* Device targets of the receipt of a sender task checked on its own.
MaxMsgs == 3
\* Channels a user is subscribed to, as resolved by ChannelsForUser.
MaxChans == 3
\* Devices a user may have beyond subBatchSize, as resolved by DevicesForUser.
MaxOver == 2
\* Calls of Stop() made by the host in one behaviour.
MaxStops == 3
\* The number of accepted submissions the queues hold when the loop is
\* looked at on its own.
MaxAccepted == 4

Min(a, b) == IF a < b THEN a ELSE b

\* Cap with room for one item more than make() was asked for.
CapOneMore == Min(bufferSize, MaxQueue) + 1

\* make(chan, bufferSize): the capacity of an ingress channel in the model.
Cap == Min(bufferSize, MaxQueue)

(***************************************************************************)
(* Data.                                                                   *)
(***************************************************************************)
\* The error predicates of the FCM client used by sendFcm.
Preds ==
  {"QuotaExceeded", "Unavailable", "Internal", "SenderIDMismatch",
   "InvalidArgument", "ThirdPartyAuthError", "Unregistered"}

\* A Go error value returned by the client: nil, or an error described by the
\* set of predicates that answer true for it.
NoErr == [nil |-> TRUE, is |-> {}]
Failure(s) == [nil |-> FALSE, is |-> s]

IsQuotaExceeded(err) == "QuotaExceeded" \in err.is
IsUnavailable(err) == "Unavailable" \in err.is
IsInternal(err) == "Internal" \in err.is
IsSenderIDMismatch(err) == "SenderIDMismatch" \in err.is
IsInvalidArgument(err) == "InvalidArgument" \in err.is
IsThirdPartyAuthError(err) == "ThirdPartyAuthError" \in err.is
IsUnregistered(err) == "Unregistered" \in err.is

\* The errors a send may return: nil, or an error with any combination of
\* answers of the predicates.
SendErrs == {NoErr} \cup {Failure(s) : s \in SUBSET Preds}

\* The errors of the sends of the tasks running under the dispatcher: nil and
\* an invalid token.
SysErrs == {NoErr, Failure({"Unregistered"})}

\* The i-th target of a receipt: user 100+i owns the device token "t<i>".
Target(i) == [uid |-> 100 + i, token |-> "t" \o ToString(i)]
Targets(n) == [i \in 1..n |-> Target(i)]

\* PrepareNotifications(rcpt, config): one message per target, and the list of
\* the owners' uids, index-aligned with the messages.
PrepareNotifications(rcpt) ==
  [messages |-> [i \in 1..Len(rcpt.to) |-> [Token |-> rcpt.to[i].token]],
   uids |-> [i \in 1..Len(rcpt.to) |-> rcpt.to[i].uid]]

\* The device tokens of a user with n devices, as DevicesForUser returns them.
Devices(n) == [i \in 1..n |-> "d" \o ToString(i)]
\* The channels of a user subscribed to n channels, as ChannelsForUser returns them.
Channels(n) == [i \in 1..n |-> "c" \o ToString(i)]

VARIABLES
  made,      \* handler.input, handler.channel and handler.stop are not nil
  config,    \* the configuration captured by the control loop's closure
  initRet,   \* what the call of Init returned; called is FALSE before it
  input,     \* handler.input: receipts waiting for the loop
  channel,   \* handler.channel: channel requests waiting for the loop
  stop,      \* handler.stop: the number of values in its one slot
  loop,      \* the control loop goroutine: "none", "running" or "exited"
  tasks,     \* the goroutines started by the loop, in the order of their start
  nsubmit,   \* submissions made so far; the next item gets id nsubmit + 1
  dropped,   \* history: the submissions that were dropped, each with the
             \* state of its queue at that time
  stops,     \* callers of Stop(): how many returned, how many are blocked on
             \* the full slot, how many are stuck on the nil channel
  exitMark   \* history: the number of calls each task had made when the
             \* loop exited

vars ==
  <<made, config, initRet, input, channel, stop, loop, tasks, nsubmit,
    dropped, stops, exitMark>>

dispatcher == <<made, config, initRet, input, channel, stop, loop, nsubmit,
                dropped, stops, exitMark>>

NoConfig == [Enabled |-> FALSE, DryRun |-> FALSE]

\* The zero value of the handler: no Init call has been made.
Init ==
  /\ made = FALSE
  /\ config = NoConfig
  /\ initRet = [called |-> FALSE, ok |-> FALSE, err |-> ""]
  /\ input = <<>>
  /\ channel = <<>>
  /\ stop = 0
  /\ loop = "none"
  /\ tasks = <<>>
  /\ nsubmit = 0
  /\ dropped = {}
  /\ stops = [returned |-> 0, blocked |-> 0, stuck |-> 0]
  /\ exitMark = <<>>

(***************************************************************************)
(* Handler.Init, lines 62-119.                                             *)
(***************************************************************************)
\* What decides the outcome of Init: whether jsonconf parses, the flags of the
\* parsed config, where the credentials come from and whether each step of
\* the provider setup succeeds.
Configs ==
  [parses : BOOLEAN, Enabled : BOOLEAN, DryRun : BOOLEAN,
   creds : {"inline", "file", "none"}, readable : BOOLEAN,
   valid : BOOLEAN, app : BOOLEAN, client : BOOLEAN]

\* The error a failing Init returns, "" when it gets to the end.
InitError(c) ==
  IF ~c.parses THEN "failed to parse config"
  ELSE IF ~c.Enabled THEN ""
  ELSE IF c.creds = "file" /\ ~c.readable THEN "read file"
  ELSE IF c.creds = "none" THEN "missing credentials"
  ELSE IF ~c.valid THEN "credentials"
  ELSE IF ~c.app THEN "new app"
  ELSE IF ~c.client THEN "messaging"
  ELSE ""

InitSucceeds(c) == c.parses /\ c.Enabled /\ InitError(c) = ""

\* HandlerInit with the make statements of lines 101-103 placed before the
\* credentials are looked at: the channels exist once the config is parsed
\* and enabled.
HandlerInitMakesEarly(c) ==
  /\ ~initRet.called
  /\ initRet' = [called |-> TRUE, ok |-> InitSucceeds(c), err |-> InitError(c)]
  /\ made' = (c.parses /\ c.Enabled)
  /\ IF InitSucceeds(c)
       THEN /\ config' = [Enabled |-> c.Enabled, DryRun |-> c.DryRun]
            /\ loop' = "running"
       ELSE UNCHANGED <<config, loop>>
  /\ UNCHANGED <<input, channel, stop, tasks, nsubmit, dropped, stops,
                 exitMark>>

HandlerInit(c) ==
  /\ ~initRet.called
  /\ initRet' = [called |-> TRUE, ok |-> InitSucceeds(c), err |-> InitError(c)]
  /\ IF InitSucceeds(c)
       THEN /\ made' = TRUE
            /\ config' = [Enabled |-> c.Enabled, DryRun |-> c.DryRun]
            /\ loop' = "running"
       ELSE UNCHANGED <<made, config, loop>>
  /\ UNCHANGED <<input, channel, stop, tasks, nsubmit, dropped, stops,
                 exitMark>>

\* Handler.IsReady, lines 237-239.
IsReady == made

(***************************************************************************)
(* Submission: the host's non-blocking send on Push() or Channel().        *)
(***************************************************************************)
\* A send on a buffered channel can proceed: the channel exists and has room.
CanSend(q) == made /\ Len(q) < Cap

\* The record of a dropped submission.
Drop(id, kind, q) == [id |-> id, kind |-> kind, made |-> made, qlen |-> Len(q)]

\* select { case hnd.Push() <- rcpt: default: }
PushReceipt(n) ==
  /\ nsubmit < MaxSubmit
  /\ nsubmit' = nsubmit + 1
  /\ IF CanSend(input)
       THEN /\ input' = Append(input, [id |-> nsubmit + 1, to |-> Targets(n)])
            /\ UNCHANGED dropped
       ELSE /\ dropped' = dropped \cup {Drop(nsubmit + 1, "receipt", input)}
            /\ UNCHANGED input
  /\ UNCHANGED <<made, config, initRet, channel, stop, loop, tasks, stops,
                 exitMark>>

\* The channel requests of the model: a channel or none, a device or none.
ChannelReqs ==
  [Channel : {"", "topicA"}, DeviceID : {"", "d1"}, Uid : {101},
   Unsub : BOOLEAN]

\* select { case hnd.Channel() <- req: default: }
PushChannelReq(r) ==
  /\ nsubmit < MaxSubmit
  /\ nsubmit' = nsubmit + 1
  /\ IF CanSend(channel)
       THEN /\ channel' = Append(channel, [id |-> nsubmit + 1, req |-> r])
            /\ UNCHANGED dropped
       ELSE /\ dropped' = dropped \cup {Drop(nsubmit + 1, "request", channel)}
            /\ UNCHANGED channel
  /\ UNCHANGED <<made, config, initRet, input, stop, loop, tasks, stops,
                 exitMark>>

(***************************************************************************)
(* Handler.Stop, lines 253-255: a blocking send on the one-slot channel.   *)
(***************************************************************************)
Stop ==
  /\ stops.returned + stops.blocked + stops.stuck < MaxStops
  /\ IF ~made
       THEN \* a send on a nil channel blocks forever
            /\ stops' = [stops EXCEPT !.stuck = @ + 1]
            /\ UNCHANGED stop
       ELSE IF stop < 1
       THEN /\ stop' = stop + 1
            /\ stops' = [stops EXCEPT !.returned = @ + 1]
       ELSE /\ stops' = [stops EXCEPT !.blocked = @ + 1]
            /\ UNCHANGED stop
  /\ UNCHANGED <<made, config, initRet, input, channel, loop, tasks, nsubmit,
                 dropped, exitMark>>

\* A caller blocked in Stop() on the full slot completes its send once the
\* slot is free.
StopUnblock ==
  /\ stops.blocked > 0
  /\ stop < 1
  /\ stop' = stop + 1
  /\ stops' = [stops EXCEPT !.returned = @ + 1, !.blocked = @ - 1]
  /\ UNCHANGED <<made, config, initRet, input, channel, loop, tasks, nsubmit,
                 dropped, exitMark>>

(***************************************************************************)
(* The control loop, lines 105-116.                                        *)
(***************************************************************************)
\* The goroutines that are inside a call of the FCM client.
InCall(T) == T.pc \in {"inSend", "inSubA", "inSubB"}
Busy == {t \in 1..Len(tasks) : InCall(tasks[t])}

\* A goroutine the loop has just started with a go statement.  busy,
\* resolved, lookups and delok are history: how many goroutines were inside a
\* call of the client then, the list a lookup of processSubscription
\* returned, the lookups it made, and the outcome of each call of
\* store.Devices.Delete.
NewTask(kind, item, busy) ==
  [id |-> item.id, kind |-> kind, item |-> item, pc |-> "start", i |-> 0,
   busy |-> busy,
   messages |-> <<>>, uids |-> <<>>,
   chan |-> "", devices |-> <<>>, device |-> "", channels |-> <<>>,
   bdevices |-> <<>>, resolved |-> <<>>,
   calls |-> <<>>, rets |-> <<>>, dels |-> <<>>, logs |-> <<>>,
   lookups |-> <<>>, delok |-> <<>>]

\* LoopRecvInput calling sendFcm itself (the go keyword missing): the loop
\* is busy until that call is over.
LoopRecvInputWaits ==
  /\ loop = "running"
  /\ \A t \in 1..Len(tasks) : tasks[t].pc = "done"
  /\ input # <<>>
  /\ input' = Tail(input)
  /\ tasks' = Append(tasks, NewTask("send", Head(input), Cardinality(Busy)))
  /\ UNCHANGED <<made, config, initRet, channel, stop, loop, nsubmit, dropped,
                 stops, exitMark>>

\* LoopRecvInput taking the receipt submitted last instead of the oldest.
LoopRecvInputTakesLast ==
  /\ loop = "running"
  /\ input # <<>>
  /\ input' = SubSeq(input, 1, Len(input) - 1)
  /\ tasks' = Append(tasks, NewTask("send", input[Len(input)], Cardinality(Busy)))
  /\ UNCHANGED <<made, config, initRet, channel, stop, loop, nsubmit, dropped,
                 stops, exitMark>>

\* case rcpt := <-handler.input: go sendFcm(rcpt, &config)
LoopRecvInput ==
  /\ loop = "running"
  /\ input # <<>>
  /\ input' = Tail(input)
  /\ tasks' = Append(tasks, NewTask("send", Head(input), Cardinality(Busy)))
  /\ UNCHANGED <<made, config, initRet, channel, stop, loop, nsubmit, dropped,
                 stops, exitMark>>

\* case sub := <-handler.channel: go processSubscription(sub)
LoopRecvChannel ==
  /\ loop = "running"
  /\ channel # <<>>
  /\ channel' = Tail(channel)
  /\ tasks' = Append(tasks, NewTask("sub", Head(channel), Cardinality(Busy)))
  /\ UNCHANGED <<made, config, initRet, input, stop, loop, nsubmit, dropped,
                 stops, exitMark>>

\* LoopRecvStop draining: the loop returns only when every goroutine it
\* started is over.
LoopRecvStopDrains ==
  /\ loop = "running"
  /\ \A t \in 1..Len(tasks) : tasks[t].pc = "done"
  /\ stop > 0
  /\ stop' = stop - 1
  /\ loop' = "exited"
  /\ exitMark' = [t \in 1..Len(tasks) |-> Len(tasks[t].calls)]
  /\ UNCHANGED <<made, config, initRet, input, channel, tasks, nsubmit,
                 dropped, stops>>

\* LoopRecvStop with continue in place of return: the loop takes the signal
\* and goes on.
LoopRecvStopKeepsRunning ==
  /\ loop = "running"
  /\ stop > 0
  /\ stop' = stop - 1
  /\ exitMark' = [t \in 1..Len(tasks) |-> Len(tasks[t].calls)]
  /\ UNCHANGED <<made, config, initRet, input, channel, loop, tasks, nsubmit,
                 dropped, stops>>

\* case <-handler.stop: return
LoopRecvStop ==
  /\ loop = "running"
  /\ stop > 0
  /\ stop' = stop - 1
  /\ loop' = "exited"
  /\ exitMark' = [t \in 1..Len(tasks) |-> Len(tasks[t].calls)]
  /\ UNCHANGED <<made, config, initRet, input, channel, tasks, nsubmit,
                 dropped, stops>>

(***************************************************************************)
(* sendFcm, lines 121-156: the goroutine of one receipt.                   *)
(***************************************************************************)
\* Classify with the test of line 143 moved to the head of the chain.
ClassifyUnregisteredFirst(err) ==
  IF IsUnregistered(err)
    THEN "InvalidToken"
  ELSE IF IsQuotaExceeded(err) \/ IsUnavailable(err) \/ IsInternal(err)
    THEN "Transient"
  ELSE IF IsSenderIDMismatch(err) \/ IsInvalidArgument(err)
            \/ IsThirdPartyAuthError(err)
    THEN "ConfigError"
  ELSE "Unknown"

\* The if-chain of lines 132-153 applied to a non-nil error.
Classify(err) ==
  IF IsQuotaExceeded(err) \/ IsUnavailable(err) \/ IsInternal(err)
    THEN "Transient"
  ELSE IF IsSenderIDMismatch(err) \/ IsInvalidArgument(err)
            \/ IsThirdPartyAuthError(err)
    THEN "ConfigError"
  ELSE IF IsUnregistered(err)
    THEN "InvalidToken"
  ELSE "Unknown"

\* Returns with the return of the last branch (line 152) missing.
ReturnsMissingUnknown(class) == class \in {"Transient", "ConfigError"}

\* The branches of the chain that end in return.
Returns(class) == class \in {"Transient", "ConfigError", "Unknown"}

\* A line written to logs.Warn or logs.Err: its text and, where the line
\* names one, the device token and the reason it prints.
Log(msg) == [msg |-> msg, token |-> "", reason |-> ""]

\* What each branch writes to logs.Warn.
SendLog(class) ==
  CASE class = "Transient" -> Log("fcm transient failure:")
    [] class = "ConfigError" -> Log("fcm invalid config:")
    [] class = "InvalidToken" -> Log("fcm invalid token:")
    [] OTHER -> Log("fcm unrecognized error:")

\* SendOp without the test of config.DryRun: every send is a real one.
SendOpAlwaysSends(dryRun) == "Send"

\* The client method of lines 125-129.
SendOp(dryRun) == IF dryRun THEN "SendDryRun" ELSE "Send"

\* NextMessage with the loop ending one message early.
NextMessageSkipsLast(T) ==
  IF T.i < Len(T.messages) - 1
    THEN [T EXCEPT !.i = @ + 1, !.pc = "send"]
    ELSE [T EXCEPT !.pc = "done"]

\* The end of one iteration of "for i := range messages".
NextMessage(T) ==
  IF T.i < Len(T.messages)
    THEN [T EXCEPT !.i = @ + 1, !.pc = "send"]
    ELSE [T EXCEPT !.pc = "done"]

\* DeleteArgs with the uid of the first message instead of the i-th.
DeleteArgsFirstUid(T) == [uid |-> T.uids[1], token |-> T.messages[T.i].Token]

\* The pair handed to store.Devices.Delete on line 146.
DeleteArgs(T) == [uid |-> T.uids[T.i], token |-> T.messages[T.i].Token]

\* Line 122, and the entry into the loop of line 123.
SendPrepare(t) ==
  /\ tasks[t].kind = "send"
  /\ tasks[t].pc = "start"
  /\ LET p == PrepareNotifications(tasks[t].item)
         T == [tasks[t] EXCEPT !.messages = p.messages, !.uids = p.uids]
     IN  tasks' = [tasks EXCEPT ![t] = NextMessage(T)]
  /\ UNCHANGED dispatcher

\* SendIssue behind a lock shared by all goroutines: a call of the client
\* is made only when no other goroutine is inside one.
SendIssueSerialized(t) ==
  /\ tasks[t].kind = "send"
  /\ tasks[t].pc = "send"
  /\ Busy = {}
  /\ LET T == tasks[t]
         call == [op |-> SendOp(config.DryRun), msg |-> T.messages[T.i]]
     IN  tasks' = [tasks EXCEPT ![t] =
                     [T EXCEPT !.calls = Append(@, call), !.pc = "inSend"]]
  /\ UNCHANGED dispatcher

\* Lines 125-129: the call of Send or SendDryRun is made.
SendIssue(t) ==
  /\ tasks[t].kind = "send"
  /\ tasks[t].pc = "send"
  /\ LET T == tasks[t]
         call == [op |-> SendOp(config.DryRun), msg |-> T.messages[T.i]]
     IN  tasks' = [tasks EXCEPT ![t] =
                     [T EXCEPT !.calls = Append(@, call), !.pc = "inSend"]]
  /\ UNCHANGED dispatcher

\* Lines 131-154: the call returns err.
SendReturn(t, err) ==
  /\ tasks[t].kind = "send"
  /\ tasks[t].pc = "inSend"
  /\ LET T == [tasks[t] EXCEPT !.rets = Append(@, err)]
         L == [T EXCEPT !.logs = Append(@, SendLog(Classify(err)))]
     IN  tasks' = [tasks EXCEPT ![t] =
                     IF err.nil THEN NextMessage(T)
                     ELSE IF Returns(Classify(err)) THEN [L EXCEPT !.pc = "done"]
                     ELSE [L EXCEPT !.pc = "delete"]]
  /\ UNCHANGED dispatcher

\* SendDelete with a return after the log of line 147: a failed delete ends
\* the batch.
SendDeleteEscalates(t, ok) ==
  /\ tasks[t].kind = "send"
  /\ tasks[t].pc = "delete"
  /\ LET T == [tasks[t] EXCEPT !.dels = Append(@, DeleteArgs(tasks[t])),
                               !.delok = Append(@, ok)]
     IN  tasks' = [tasks EXCEPT ![t] =
                     IF ok THEN NextMessage(T)
                     ELSE [T EXCEPT !.logs =
                             Append(@, Log("fcm failed to delete invalid token:")),
                                    !.pc = "done"]]
  /\ UNCHANGED dispatcher

\* SendDelete calling store.Devices.Delete a second time with the same pair.
SendDeleteTwice(t, ok) ==
  /\ tasks[t].kind = "send"
  /\ tasks[t].pc = "delete"
  /\ LET T == [tasks[t] EXCEPT
                 !.dels = Append(Append(@, DeleteArgs(tasks[t])), DeleteArgs(tasks[t])),
                 !.delok = Append(Append(@, ok), ok)]
         L == IF ok THEN T
              ELSE [T EXCEPT !.logs =
                      Append(@, Log("fcm failed to delete invalid token:"))]
     IN  tasks' = [tasks EXCEPT ![t] = NextMessage(L)]
  /\ UNCHANGED dispatcher

\* Lines 146-148: store.Devices.Delete, which succeeds or fails.
SendDelete(t, ok) ==
  /\ tasks[t].kind = "send"
  /\ tasks[t].pc = "delete"
  /\ LET T == [tasks[t] EXCEPT !.dels = Append(@, DeleteArgs(tasks[t])),
                               !.delok = Append(@, ok)]
         L == IF ok THEN T
              ELSE [T EXCEPT !.logs =
                      Append(@, Log("fcm failed to delete invalid token:"))]
     IN  tasks' = [tasks EXCEPT ![t] = NextMessage(L)]
  /\ UNCHANGED dispatcher

(***************************************************************************)
(* processSubscription, lines 158-223: the goroutine of one channel        *)
(* request, and handleSubErrors, lines 225-234.                            *)
(***************************************************************************)
\* The response of a bulk call that has no error: the failure count and, per
\* failed device, its index in the list handed to the call and the reason.
NoResp == [FailureCount |-> 0, Errors |-> <<>>]
Resp(errs) == [FailureCount |-> Len(errs), Errors |-> errs]
ErrInfo(idx) == [Index |-> idx, Reason |-> "NOT_FOUND"]

\* What a bulk call on a list of n devices may return: a complete failure, a
\* success, and a partial failure of the first device, the last, or both.
SubRets(n) ==
  {[failed |-> TRUE, resp |-> NoResp], [failed |-> FALSE, resp |-> NoResp],
   [failed |-> FALSE, resp |-> Resp(<<ErrInfo(0)>>)],
   [failed |-> FALSE, resp |-> Resp(<<ErrInfo(n - 1)>>)],
   [failed |-> FALSE, resp |-> Resp(<<ErrInfo(0), ErrInfo(n - 1)>>)]}

\* handleSubErrors printing the first device of the list on every line.
handleSubErrorsFirstDevice(response, devices) ==
  IF response.FailureCount <= 0 THEN <<>>
  ELSE [k \in 1..Len(response.Errors) |->
          [msg |-> "fcm sub/unsub error",
           token |-> devices[1],
           reason |-> response.Errors[k].Reason]]

\* handleSubErrors: the lines it logs, one per entry of response.Errors.
handleSubErrors(response, devices) ==
  IF response.FailureCount <= 0 THEN <<>>
  ELSE [k \in 1..Len(response.Errors) |->
          [msg |-> "fcm sub/unsub error",
           token |-> devices[response.Errors[k].Index + 1],
           reason |-> response.Errors[k].Reason]]

\* SubOp with the test of req.Unsub inverted.
SubOpInverted(unsub) ==
  IF unsub THEN "SubscribeToTopic" ELSE "UnsubscribeFromTopic"

\* The client method of lines 186-190 and 204-208.
SubOp(unsub) == IF unsub THEN "UnsubscribeFromTopic" ELSE "SubscribeToTopic"

\* Truncate keeping the end of the list instead of its beginning.
TruncateKeepsTail(devices) ==
  IF Len(devices) > subBatchSize
    THEN SubSeq(devices, Len(devices) - subBatchSize + 1, Len(devices))
  ELSE devices

\* Lines 177-181: the device list cut to the batch size.
Truncate(devices) ==
  IF Len(devices) > subBatchSize THEN SubSeq(devices, 1, subBatchSize)
  ELSE devices

\* Lines 172-222, from the resolved lists to the first call of the client.
\* The devices of the inner block of line 202 are kept in bdevices.
AfterResolve(T) ==
  IF \/ Len(T.devices) = 0 /\ T.device = ""
     \/ Len(T.channels) = 0 /\ T.chan = ""
    THEN [T EXCEPT !.pc = "done"]
  ELSE
    LET U == IF Len(T.devices) > subBatchSize
               THEN [T EXCEPT !.devices = Truncate(T.devices),
                              !.logs = Append(@, Log("fcm: user has more devices than"))]
               ELSE T
    IN  IF U.chan # "" /\ Len(U.devices) > 0
          THEN [U EXCEPT !.pc = "subA"]
        ELSE IF U.device # "" /\ Len(U.channels) > 0
          THEN [U EXCEPT !.bdevices = <<U.device>>, !.i = 1, !.pc = "subB"]
        ELSE [U EXCEPT !.logs = Append(@, Log("fcm: invalid combination of sub/unsub channels/devices")),
                       !.pc = "done"]

\* Lines 164-170 with the lookup they make, when req.Channel is set:
\* DevicesForUser returns n devices.
SubResolveDevices(t, n) ==
  /\ tasks[t].kind = "sub"
  /\ tasks[t].pc = "start"
  /\ tasks[t].item.req.Channel # ""
  /\ LET T == [tasks[t] EXCEPT !.devices = Devices(n),
                               !.resolved = Devices(n),
                               !.lookups = Append(@, "DevicesForUser"),
                               !.chan = tasks[t].item.req.Channel]
     IN  tasks' = [tasks EXCEPT ![t] = AfterResolve(T)]
  /\ UNCHANGED dispatcher

\* SubResolveChannels with the test of req.DeviceID not behind the else of
\* line 167: a request with a device looks its channels up, with or without
\* a channel of its own.
SubResolveChannelsAnyChannel(t, n) ==
  /\ tasks[t].kind = "sub"
  /\ tasks[t].pc = "start"
  /\ tasks[t].item.req.DeviceID # ""
  /\ LET T == [tasks[t] EXCEPT !.channels = Channels(n),
                               !.resolved = Channels(n),
                               !.lookups = Append(@, "ChannelsForUser"),
                               !.device = tasks[t].item.req.DeviceID]
     IN  tasks' = [tasks EXCEPT ![t] = AfterResolve(T)]
  /\ UNCHANGED dispatcher

\* ... when only req.DeviceID is set: ChannelsForUser returns n channels.
SubResolveChannels(t, n) ==
  /\ tasks[t].kind = "sub"
  /\ tasks[t].pc = "start"
  /\ tasks[t].item.req.Channel = ""
  /\ tasks[t].item.req.DeviceID # ""
  /\ LET T == [tasks[t] EXCEPT !.channels = Channels(n),
                               !.resolved = Channels(n),
                               !.lookups = Append(@, "ChannelsForUser"),
                               !.device = tasks[t].item.req.DeviceID]
     IN  tasks' = [tasks EXCEPT ![t] = AfterResolve(T)]
  /\ UNCHANGED dispatcher

\* ... when neither is set: no lookup is made.
SubResolveNone(t) ==
  /\ tasks[t].kind = "sub"
  /\ tasks[t].pc = "start"
  /\ tasks[t].item.req.Channel = ""
  /\ tasks[t].item.req.DeviceID = ""
  /\ tasks' = [tasks EXCEPT ![t] = AfterResolve(tasks[t])]
  /\ UNCHANGED dispatcher

\* Lines 186-190: the one bulk call of a request with a channel is made.
SubIssueA(t) ==
  /\ tasks[t].kind = "sub"
  /\ tasks[t].pc = "subA"
  /\ LET T == tasks[t]
         call == [op |-> SubOp(T.item.req.Unsub), tokens |-> T.devices,
                  topic |-> T.chan]
     IN  tasks' = [tasks EXCEPT ![t] =
                     [T EXCEPT !.calls = Append(@, call), !.pc = "inSubA"]]
  /\ UNCHANGED dispatcher

\* Lines 191-198: the call returns, and the function with it.
SubReturnA(t, r) ==
  /\ tasks[t].kind = "sub"
  /\ tasks[t].pc = "inSubA"
  /\ LET T == [tasks[t] EXCEPT !.rets = Append(@, r), !.pc = "done"]
     IN  tasks' = [tasks EXCEPT ![t] =
                     IF r.failed
                       THEN [T EXCEPT !.logs = Append(@, Log("fcm: sub or upsub failed"))]
                       ELSE [T EXCEPT !.logs = @ \o handleSubErrors(r.resp, T.devices)]]
  /\ UNCHANGED dispatcher

\* Lines 203-208: the call for the i-th channel of a request with a device.
SubIssueB(t) ==
  /\ tasks[t].kind = "sub"
  /\ tasks[t].pc = "subB"
  /\ LET T == tasks[t]
         call == [op |-> SubOp(T.item.req.Unsub), tokens |-> T.bdevices,
                  topic |-> T.channels[T.i]]
     IN  tasks' = [tasks EXCEPT ![t] =
                     [T EXCEPT !.calls = Append(@, call), !.pc = "inSubB"]]
  /\ UNCHANGED dispatcher

\* SubReturnB with the break of line 212 missing.
SubReturnBNoBreak(t, r) ==
  /\ tasks[t].kind = "sub"
  /\ tasks[t].pc = "inSubB"
  /\ LET T == [tasks[t] EXCEPT !.rets = Append(@, r)]
         L == IF r.failed
                THEN [T EXCEPT !.logs = Append(@, Log("fcm: sub or upsub failed"))]
                ELSE [T EXCEPT !.logs = @ \o handleSubErrors(r.resp, T.bdevices)]
     IN  tasks' = [tasks EXCEPT ![t] =
                     IF L.i < Len(L.channels)
                       THEN [L EXCEPT !.i = @ + 1, !.pc = "subB"]
                       ELSE [L EXCEPT !.pc = "done"]]
  /\ UNCHANGED dispatcher

\* Lines 209-217: the call returns; break on an error, else the next channel.
SubReturnB(t, r) ==
  /\ tasks[t].kind = "sub"
  /\ tasks[t].pc = "inSubB"
  /\ LET T == [tasks[t] EXCEPT !.rets = Append(@, r)]
     IN  tasks' = [tasks EXCEPT ![t] =
                     IF r.failed
                       THEN [T EXCEPT !.logs = Append(@, Log("fcm: sub or upsub failed")),
                                      !.pc = "done"]
                     ELSE LET L == [T EXCEPT !.logs = @ \o handleSubErrors(r.resp, T.bdevices)]
                          IN  IF L.i < Len(L.channels)
                                THEN [L EXCEPT !.i = @ + 1, !.pc = "subB"]
                                ELSE [L EXCEPT !.pc = "done"]]
  /\ UNCHANGED dispatcher

(***************************************************************************)
(* The system: the host, the control loop and the goroutines it starts.    *)
(***************************************************************************)
\* The requests submitted to the dispatcher: a subscription of the devices of
\* a user to a channel, and an unsubscription of a device from the channels
\* of its user.
SysReqs ==
  {[Channel |-> "topicA", DeviceID |-> "", Uid |-> 101, Unsub |-> FALSE],
   [Channel |-> "", DeviceID |-> "d1", Uid |-> 101, Unsub |-> TRUE]}

\* The returns of the bulk calls of the tasks running under the dispatcher: a
\* complete failure and a success.
SysSubRets ==
  {[failed |-> TRUE, resp |-> NoResp], [failed |-> FALSE, resp |-> NoResp]}

Next ==
  \/ \E c \in Configs : HandlerInit(c)
  \/ \E n \in {1} : PushReceipt(n)
  \/ \E r \in SysReqs : PushChannelReq(r)
  \/ Stop
  \/ StopUnblock
  \/ LoopRecvInput
  \/ LoopRecvChannel
  \/ LoopRecvStop
  \/ \E t \in 1..Len(tasks) : SendPrepare(t)
  \/ \E t \in 1..Len(tasks) : SendIssue(t)
  \/ \E t \in 1..Len(tasks), err \in SysErrs : SendReturn(t, err)
  \/ \E t \in 1..Len(tasks), ok \in BOOLEAN : SendDelete(t, ok)
  \/ \E t \in 1..Len(tasks), n \in {1} : SubResolveDevices(t, n)
  \/ \E t \in 1..Len(tasks), n \in {1} : SubResolveChannels(t, n)
  \/ \E t \in 1..Len(tasks) : SubIssueA(t)
  \/ \E t \in 1..Len(tasks), r \in SysSubRets : SubReturnA(t, r)
  \/ \E t \in 1..Len(tasks) : SubIssueB(t)
  \/ \E t \in 1..Len(tasks), r \in SysSubRets : SubReturnB(t, r)

Spec == Init /\ [][Next]_vars

\* The select of the loop chooses at random among the cases that are ready:
\* a case that stays ready is taken in the end.  Nothing is assumed of the
\* host or of the goroutines: a call to the provider may never return.
FairSpec ==
  /\ Spec
  /\ WF_vars(LoopRecvInput)
  /\ WF_vars(LoopRecvChannel)
  /\ WF_vars(LoopRecvStop)

(***************************************************************************)
(* One goroutine on its own.  A goroutine shares nothing with the loop or  *)
(* with the other goroutines (it reads handler.client, handler.ctx and the *)
(* config, which do not change after Init), so what it does is checked     *)
(* from the state in which the loop has just started it, over the whole    *)
(* range of its inputs.                                                    *)
(***************************************************************************)
\* The state after a successful Init, one accepted submission and the loop's
\* go statement for it.
Started(dryRun, task) ==
  /\ made = TRUE
  /\ config = [Enabled |-> TRUE, DryRun |-> dryRun]
  /\ initRet = [called |-> TRUE, ok |-> TRUE, err |-> ""]
  /\ input = <<>>
  /\ channel = <<>>
  /\ stop = 0
  /\ loop = "running"
  /\ tasks = <<task>>
  /\ nsubmit = 1
  /\ dropped = {}
  /\ stops = [returned |-> 0, blocked |-> 0, stuck |-> 0]
  /\ exitMark = <<>>

InitSend ==
  \E dryRun \in BOOLEAN, n \in 0..MaxMsgs :
    Started(dryRun, NewTask("send", [id |-> 1, to |-> Targets(n)], 0))

NextSend ==
  \/ \E t \in 1..Len(tasks) : SendPrepare(t)
  \/ \E t \in 1..Len(tasks) : SendIssue(t)
  \/ \E t \in 1..Len(tasks), err \in SendErrs : SendReturn(t, err)
  \/ \E t \in 1..Len(tasks), ok \in BOOLEAN : SendDelete(t, ok)

SpecSend == InitSend /\ [][NextSend]_vars

\* The lengths of the list DevicesForUser returns: short ones, and those
\* around the batch size.
DeviceCounts == (0..3) \cup ((subBatchSize - 1)..(subBatchSize + MaxOver))

InitSub ==
  \E r \in ChannelReqs : Started(FALSE, NewTask("sub", [id |-> 1, req |-> r], 0))

NextSub ==
  \/ \E t \in 1..Len(tasks), n \in DeviceCounts : SubResolveDevices(t, n)
  \/ \E t \in 1..Len(tasks), n \in 0..MaxChans : SubResolveChannels(t, n)
  \/ \E t \in 1..Len(tasks) : SubResolveNone(t)
  \/ \E t \in 1..Len(tasks) : SubIssueA(t)
  \/ \E t \in 1..Len(tasks) :
       \E r \in SubRets(Len(tasks[t].devices)) : SubReturnA(t, r)
  \/ \E t \in 1..Len(tasks) : SubIssueB(t)
  \/ \E t \in 1..Len(tasks) :
       \E r \in SubRets(Len(tasks[t].bdevices)) : SubReturnB(t, r)

SpecSub == InitSub /\ [][NextSub]_vars

(***************************************************************************)
(* Two goroutines side by side: the loop has taken two accepted            *)
(* submissions, one after the other, and made the go statement for each    *)
(* before either goroutine got to run.                                     *)
(***************************************************************************)
\* The goroutine of the submission with this id: sendFcm for a receipt of
\* one or two targets, processSubscription for a request of SysReqs.
PairTasks(id) ==
  {NewTask("send", [id |-> id, to |-> Targets(n)], 0) : n \in {1, 2}}
    \cup {NewTask("sub", [id |-> id, req |-> r], 0) : r \in SysReqs}

InitPair ==
  \E a \in PairTasks(1), b \in PairTasks(2) :
    /\ made = TRUE
    /\ config = [Enabled |-> TRUE, DryRun |-> FALSE]
    /\ initRet = [called |-> TRUE, ok |-> TRUE, err |-> ""]
    /\ input = <<>>
    /\ channel = <<>>
    /\ stop = 0
    /\ loop = "running"
    /\ tasks = <<a, b>>
    /\ nsubmit = 2
    /\ dropped = {}
    /\ stops = [returned |-> 0, blocked |-> 0, stuck |-> 0]
    /\ exitMark = <<>>

NextPair ==
  \/ \E t \in 1..Len(tasks) : SendPrepare(t)
  \/ \E t \in 1..Len(tasks) : SendIssue(t)
  \/ \E t \in 1..Len(tasks), err \in SysErrs : SendReturn(t, err)
  \/ \E t \in 1..Len(tasks), ok \in BOOLEAN : SendDelete(t, ok)
  \/ \E t \in 1..Len(tasks), n \in {1, 2} : SubResolveDevices(t, n)
  \/ \E t \in 1..Len(tasks), n \in {1, 2} : SubResolveChannels(t, n)
  \/ \E t \in 1..Len(tasks) : SubIssueA(t)
  \/ \E t \in 1..Len(tasks), r \in SysSubRets : SubReturnA(t, r)
  \/ \E t \in 1..Len(tasks) : SubIssueB(t)
  \/ \E t \in 1..Len(tasks), r \in SysSubRets : SubReturnB(t, r)

SpecPair == InitPair /\ [][NextPair]_vars

(***************************************************************************)
(* The control loop on its own: Init has succeeded and the host has made   *)
(* MaxAccepted submissions, all accepted (the queues of the program hold   *)
(* up to bufferSize items each), before the loop got to run.  The loop     *)
(* takes them while Stop() is called.                                      *)
(***************************************************************************)
\* The submission with this id: a receipt of one target, or the request r.
Submitted(id, kind, r) ==
  IF kind = "receipt" THEN [id |-> id, to |-> Targets(1)]
  ELSE [id |-> id, req |-> r]

InitDispatch ==
  \E kinds \in [1..MaxAccepted -> {"receipt", "request"}], r \in SysReqs :
    LET all == [id \in 1..MaxAccepted |-> Submitted(id, kinds[id], r)]
    IN  /\ made = TRUE
        /\ config = [Enabled |-> TRUE, DryRun |-> FALSE]
        /\ initRet = [called |-> TRUE, ok |-> TRUE, err |-> ""]
        /\ input = SelectSeq(all, LAMBDA x : kinds[x.id] = "receipt")
        /\ channel = SelectSeq(all, LAMBDA x : kinds[x.id] = "request")
        /\ stop = 0
        /\ loop = "running"
        /\ tasks = <<>>
        /\ nsubmit = MaxAccepted
        /\ dropped = {}
        /\ stops = [returned |-> 0, blocked |-> 0, stuck |-> 0]
        /\ exitMark = <<>>

NextDispatch ==
  \/ Stop
  \/ StopUnblock
  \/ LoopRecvInput
  \/ LoopRecvChannel
  \/ LoopRecvStop

SpecDispatch == InitDispatch /\ [][NextDispatch]_vars

(***************************************************************************)
(* Properties of the Notification Sender, checked under SpecSend.          *)
(***************************************************************************)
SendTasks == {t \in 1..Len(tasks) : tasks[t].kind = "send"}

\* The predicates of a transient failure and of a configuration error.
TransientPreds == {"QuotaExceeded", "Unavailable", "Internal"}
ConfigPreds == {"SenderIDMismatch", "InvalidArgument", "ThirdPartyAuthError"}

\* A failure that is transient, a configuration error, or unknown.
Aborting(err) ==
  /\ ~err.nil
  /\ \/ err.is \cap (TransientPreds \cup ConfigPreds) # {}
     \/ "Unregistered" \notin err.is

\* A failure that is an invalid token and nothing else.
InvalidToken(err) == ~err.nil /\ ~Aborting(err)

\* The deletes a task has issued for the token of its k-th message.
DeletesFor(T, k) ==
  {j \in 1..Len(T.dels) : T.dels[j].token = T.messages[k].Token}

\* C1: when the provider call for message k fails with a transient error, a
\* configuration error or an unknown error, the task is over: call k is the
\* last call it ever makes, and it issues no delete for message k.
C1_AbortStopsSending ==
  \A t \in SendTasks :
    \A k \in 1..Len(tasks[t].rets) :
      Aborting(tasks[t].rets[k]) =>
        /\ tasks[t].pc = "done"
        /\ Len(tasks[t].calls) = k
        /\ DeletesFor(tasks[t], k) = {}

\* An aborting failure of a call that is not the last message's: the
\* messages after it are left unsent.
C1_Witness ==
  \E t \in SendTasks :
    \E k \in 1..Len(tasks[t].rets) :
      /\ Aborting(tasks[t].rets[k])
      /\ k > 1
      /\ k < Len(tasks[t].messages)

\* C2: when the provider call for message k returns an invalid-token error,
\* one delete and no more is issued for message k, for the pair (uids[k],
\* messages[k].Token), before anything else is done; the task then goes on to
\* message k+1, and a task that ends without an aborting error has made one
\* call per message.
C2_InvalidTokenDeletesAndContinues ==
  \A t \in SendTasks :
    LET T == tasks[t]
        N == Len(T.messages)
    IN  /\ \A k \in 1..Len(T.rets) :
             InvalidToken(T.rets[k]) =>
               /\ \A j \in DeletesFor(T, k) :
                    T.dels[j] = [uid |-> T.item.to[k].uid,
                                 token |-> T.item.to[k].token]
               /\ Cardinality(DeletesFor(T, k)) =
                    IF T.pc = "delete" /\ T.i = k THEN 0 ELSE 1
               /\ (T.pc = "done" /\ k < N) => Len(T.calls) > k
        /\ Len(T.dels) <= Cardinality({k \in 1..Len(T.rets) : InvalidToken(T.rets[k])})
        /\ (T.pc = "done" /\ \A k \in 1..Len(T.rets) : ~Aborting(T.rets[k]))
             => Len(T.calls) = N

\* Three messages, the second has an invalid token: three calls, one delete.
C2_Witness ==
  \E t \in SendTasks :
    /\ tasks[t].pc = "done"
    /\ Len(tasks[t].messages) = 3
    /\ Len(tasks[t].calls) = 3
    /\ InvalidToken(tasks[t].rets[2])
    /\ tasks[t].rets[1].nil
    /\ tasks[t].rets[3].nil
    /\ tasks[t].dels = <<[uid |-> 102, token |-> "t2"]>>

\* C3: a task all of whose sends succeed calls the provider once per prepared
\* message, in the order of the messages, N times in all when it ends, and
\* issues no delete.
C3_AllSucceed ==
  \A t \in SendTasks :
    LET T == tasks[t]
        msgs == PrepareNotifications(T.item).messages
    IN  (\A k \in 1..Len(T.rets) : T.rets[k].nil) =>
          /\ T.dels = <<>>
          /\ Len(T.calls) <= Len(msgs)
          /\ \A k \in 1..Len(T.calls) : T.calls[k].msg = msgs[k]
          /\ T.pc = "done" => Len(T.calls) = Len(msgs)

\* Three messages, three successful calls.
C3_Witness ==
  \E t \in SendTasks :
    /\ tasks[t].pc = "done"
    /\ Len(tasks[t].messages) = 3
    /\ Len(tasks[t].rets) = 3
    /\ \A k \in 1..3 : tasks[t].rets[k].nil
    /\ Len(tasks[t].calls) = 3
    /\ tasks[t].dels = <<>>

(***************************************************************************)
(* Properties of the dispatcher, checked under Spec and FairSpec.          *)
(***************************************************************************)
\* The queue holds as many items as make() gave it room for.
Full(q) == made /\ Len(q) = Min(bufferSize, MaxQueue)

QueuedIds ==
  {input[k].id : k \in 1..Len(input)} \cup {channel[k].id : k \in 1..Len(channel)}
SpawnedIds == {tasks[t].id : t \in 1..Len(tasks)}

\* q is p, or p with items appended.
IsPrefix(p, q) == Len(p) <= Len(q) /\ SubSeq(q, 1, Len(p)) = p

\* C4: a submission made while its queue is full is possible (the caller is
\* not blocked), leaves the queue and the tasks as they are and is recorded as
\* dropped; a dropped item is in no queue and is never given to a task.
C4_DropOnFull ==
  /\ [][(nsubmit' # nsubmit /\ Full(input) /\ channel' = channel) =>
          /\ input' = input
          /\ tasks' = tasks
          /\ \E d \in dropped' \ dropped : d.id = nsubmit']_vars
  /\ [][(nsubmit' # nsubmit /\ Full(channel) /\ input' = input) =>
          /\ channel' = channel
          /\ tasks' = tasks
          /\ \E d \in dropped' \ dropped : d.id = nsubmit']_vars
  /\ [](nsubmit < MaxSubmit =>
          /\ ENABLED PushReceipt(1)
          /\ \A r \in SysReqs : ENABLED PushChannelReq(r))
  /\ [](\A d \in dropped : d.id \notin QueuedIds \cup SpawnedIds)

\* A submission was dropped because its queue was full.
C4_Witness ==
  \E d \in dropped : d.made /\ d.qlen = Min(bufferSize, MaxQueue)

\* C5: as long as the loop runs it can take the next item of either queue,
\* whatever the goroutines it started are doing; and, the loop's select being
\* fair, every queued item is given to a goroutine unless a stop is signalled.
C5_LoopNeverWaits ==
  /\ [](loop = "running" =>
          /\ input # <<>> => ENABLED LoopRecvInput
          /\ channel # <<>> => ENABLED LoopRecvChannel)
  /\ \A id \in 1..MaxSubmit :
       (id \in QueuedIds) ~> (id \in SpawnedIds \/ stop > 0 \/ loop = "exited")

\* A goroutine was started while an earlier one was inside a provider call.
C5_Witness == \E t \in 1..Len(tasks) : tasks[t].busy > 0

\* C6: a signalled stop makes the loop exit, whatever the goroutines are
\* doing; after the exit nothing leaves a queue and no goroutine is started;
\* the exit leaves the goroutines as they are, and each can go on to its next
\* provider call.
C6_StopExitsWithoutDrain ==
  /\ (stop > 0) ~> (loop = "exited")
  /\ [][loop = "exited" =>
          /\ loop' = "exited"
          /\ Len(tasks') = Len(tasks)
          /\ IsPrefix(input, input')
          /\ IsPrefix(channel, channel')]_vars
  /\ [][loop' # loop => tasks' = tasks]_vars
  /\ [](loop = "exited" =>
          \A t \in 1..Len(tasks) :
            /\ tasks[t].pc = "send" => ENABLED SendIssue(t)
            /\ tasks[t].pc = "subA" => ENABLED SubIssueA(t)
            /\ tasks[t].pc = "subB" => ENABLED SubIssueB(t))

\* After the exit of the loop, a goroutine has made a provider call.
C6_Witness ==
  /\ loop = "exited"
  /\ \E t \in 1..Len(exitMark) : Len(tasks[t].calls) > exitMark[t]

(***************************************************************************)
(* Properties of the Subscription Manager, checked under SpecSub.          *)
(***************************************************************************)
SubTasks == {t \in 1..Len(tasks) : tasks[t].kind = "sub"}

\* The request names a channel (shape A), or a device and no channel (shape B).
FixedChannel(T) == T.item.req.Channel # ""
FixedDevice(T) == T.item.req.Channel = "" /\ T.item.req.DeviceID # ""

Logged(T, msg) == \E k \in 1..Len(T.logs) : T.logs[k].msg = msg

InvalidLine == "fcm: invalid combination of sub/unsub channels/devices"
TooManyLine == "fcm: user has more devices than"

\* The kind of call the unsubscribe flag of the request selects.
OpOf(T) ==
  IF T.item.req.Unsub THEN "UnsubscribeFromTopic" ELSE "SubscribeToTopic"

\* C7: a request that resolves to devices and to channels at once, or that
\* names neither a channel nor a device, ends with no provider call and with
\* an error in the log.
C7_InvalidRequestLogsError ==
  \A t \in SubTasks :
    LET T == tasks[t]
    IN  (/\ T.pc = "done"
         /\ \/ Len(T.devices) > 0 /\ Len(T.channels) > 0
            \/ T.item.req.Channel = "" /\ T.item.req.DeviceID = "")
          => T.calls = <<>> /\ Logged(T, InvalidLine)

\* C8: no bulk call carries more than subBatchSize tokens.  A request with a
\* channel whose user has more devices than that is not rejected: it logs a
\* warning and its call carries the first subBatchSize tokens of the resolved
\* list.  A shorter list is passed as it is, with no warning.
C8_BatchTruncated ==
  \A t \in SubTasks :
    LET T == tasks[t]
        R == T.resolved
    IN  /\ \A k \in 1..Len(T.calls) : Len(T.calls[k].tokens) <= 1000
        /\ (FixedChannel(T) /\ T.pc # "start" /\ Len(R) > 1000) =>
             /\ Logged(T, TooManyLine)
             /\ T.pc \in {"subA", "inSubA"} \/ Len(T.calls) = 1
             /\ \A k \in 1..Len(T.calls) :
                  T.calls[k].tokens = [j \in 1..1000 |-> R[j]]
        /\ (FixedChannel(T) /\ T.pc # "start" /\ Len(R) <= 1000) =>
             /\ ~Logged(T, TooManyLine)
             /\ \A k \in 1..Len(T.calls) : T.calls[k].tokens = R

\* A user with more than subBatchSize devices: the call was made, with
\* subBatchSize tokens, and the warning logged.
C8_Witness ==
  \E t \in SubTasks :
    /\ FixedChannel(tasks[t])
    /\ Len(tasks[t].resolved) > 1000
    /\ Len(tasks[t].calls) = 1
    /\ Len(tasks[t].calls[1].tokens) = 1000
    /\ Logged(tasks[t], TooManyLine)

\* C9: a request with a channel whose user has no device makes no call; with
\* N >= 1 devices it makes one call and no more, against the channel of the
\* request, with the resolved tokens (the first subBatchSize of them), an
\* unsubscribe when the flag is set and a subscribe when it is not; the task
\* ends when that call returns, failed or not.
C9_FixedChannelOneCall ==
  \A t \in SubTasks :
    LET T == tasks[t]
        R == T.resolved
        expected ==
          [op |-> OpOf(T),
           tokens |-> IF Len(R) > 1000 THEN [j \in 1..1000 |-> R[j]] ELSE R,
           topic |-> T.item.req.Channel]
    IN  (FixedChannel(T) /\ T.pc # "start") =>
          /\ Len(R) = 0 => T.calls = <<>> /\ T.pc = "done"
          /\ Len(R) >= 1 =>
               /\ T.calls \in {<<>>, <<expected>>}
               /\ T.pc = "done" => T.calls = <<expected>>
               /\ Len(T.rets) = 1 => T.pc = "done"
               /\ Len(T.rets) <= 1

\* The user has three devices: one subscribe call with the three tokens.
C9_Witness ==
  \E t \in SubTasks :
    /\ tasks[t].item.req.Channel = "topicA"
    /\ ~tasks[t].item.req.Unsub
    /\ tasks[t].pc = "done"
    /\ tasks[t].calls =
         <<[op |-> "SubscribeToTopic", tokens |-> <<"d1", "d2", "d3">>,
            topic |-> "topicA"]>>

\* C10: a request with a device and no channel, whose user has the channels
\* c1..cM, makes its calls in the order of the list, the k-th against ck with
\* the one-element list [device] and of the kind the flag selects; the first
\* call that fails outright is the last; a task that ends without such a
\* failure has made M calls, whatever the partial failures reported.
C10_FixedDevicePerChannel ==
  \A t \in SubTasks :
    LET T == tasks[t]
        R == T.resolved
    IN  (FixedDevice(T) /\ T.pc # "start") =>
          /\ Len(T.calls) <= Len(R)
          /\ \A k \in 1..Len(T.calls) :
               T.calls[k] = [op |-> OpOf(T),
                             tokens |-> <<T.item.req.DeviceID>>,
                             topic |-> R[k]]
          /\ \A k \in 1..Len(T.rets) :
               T.rets[k].failed => T.pc = "done" /\ Len(T.calls) = k
          /\ (T.pc = "done" /\ \A k \in 1..Len(T.rets) : ~T.rets[k].failed)
               => Len(T.calls) = Len(R)

\* Three channels: the first call reports a partial failure, the second
\* fails outright, the third is not made.
C10_Witness ==
  \E t \in SubTasks :
    /\ FixedDevice(tasks[t])
    /\ Len(tasks[t].resolved) = 3
    /\ tasks[t].pc = "done"
    /\ Len(tasks[t].calls) = 2
    /\ Len(tasks[t].rets) = 2
    /\ ~tasks[t].rets[1].failed
    /\ tasks[t].rets[1].resp.FailureCount > 0
    /\ tasks[t].rets[2].failed

(***************************************************************************)
(* Properties of two goroutines running side by side, checked under        *)
(* SpecPair.                                                               *)
(***************************************************************************)
\* Within one goroutine the calls of the client are made one at a time: there
\* is at most one call that has not returned, and the goroutine is inside it.
Sequential(T) ==
  /\ Len(T.calls) \in {Len(T.rets), Len(T.rets) + 1}
  /\ InCall(T) <=> Len(T.calls) = Len(T.rets) + 1

\* The calls made so far follow the list the goroutine works through: the
\* prepared messages of a receipt, the channels of a request with a device.
InListOrder(T) ==
  \A j \in 1..Len(T.calls) :
    /\ T.kind = "send" =>
         T.calls[j].msg = PrepareNotifications(T.item).messages[j]
    /\ (T.kind = "sub" /\ T.item.req.Channel = "") =>
         T.calls[j].topic = T.resolved[j]
    /\ (T.kind = "sub" /\ T.item.req.Channel # "") => j = 1

\* What goroutine t is ready to do next does not depend on any other
\* goroutine: a call it is about to make can be made, and a call it is
\* inside can return, whatever the others are doing.
Unordered(t) ==
  /\ tasks[t].pc = "send" => ENABLED SendIssue(t)
  /\ tasks[t].pc = "inSend" => ENABLED SendReturn(t, NoErr)
  /\ tasks[t].pc = "subA" => ENABLED SubIssueA(t)
  /\ tasks[t].pc = "subB" => ENABLED SubIssueB(t)

\* C11: within one goroutine call j+1 is made only after call j has returned
\* and the calls follow the order of the message list or of the channel
\* list; between two goroutines there is no order: each can make its next
\* call and have its call return whatever the other one is doing, so two
\* receipts for the same device can both be inside a send, and either send
\* can return first.
C11_OrderedOnlyWithinTask ==
  \A t \in 1..Len(tasks) :
    /\ Sequential(tasks[t])
    /\ InListOrder(tasks[t])
    /\ Unordered(t)

\* The goroutine of the second receipt has had its send to "t1" return and is
\* inside its second send, while the goroutine of the first receipt is still
\* inside its send to "t1".
C11_Witness ==
  /\ tasks[1].kind = "send" /\ tasks[2].kind = "send"
  /\ tasks[1].id < tasks[2].id
  /\ tasks[1].pc = "inSend" /\ tasks[2].pc = "inSend"
  /\ Len(tasks[1].calls) = 1 /\ tasks[1].calls[1].msg.Token = "t1"
  /\ Len(tasks[2].calls) = 2 /\ tasks[2].calls[1].msg.Token = "t1"
  /\ Len(tasks[2].rets) = 1

(***************************************************************************)
(* Properties of Init, IsReady and Stop, checked under Spec.               *)
(***************************************************************************)
\* The configs with which Init does not get to its end: jsonconf does not
\* parse, the adapter is not enabled, there are no credentials, the
\* credentials file cannot be read, the credentials are not valid, or the
\* app or its messaging client cannot be made.
InitFails(c) ==
  \/ ~c.parses
  \/ ~c.Enabled
  \/ c.creds = "none"
  \/ c.creds = "file" /\ ~c.readable
  \/ ~c.valid
  \/ ~c.app
  \/ ~c.client

\* Nothing of what a successful Init makes is there.
NothingMade ==
  /\ ~made
  /\ loop = "none"
  /\ input = <<>> /\ channel = <<>> /\ stop = 0
  /\ tasks = <<>>

\* C12: IsReady() is true exactly when a call of Init has returned success;
\* a call of Init with a config that does not parse, is not enabled, has
\* missing or invalid credentials or whose provider setup fails returns, in
\* that same step, an error (no error and false when not enabled), makes
\* neither queue nor the stop channel, starts no loop, and IsReady() stays
\* false from then on.
C12_ReadyIffInitSucceeded ==
  /\ [](IsReady <=> (initRet.called /\ initRet.ok))
  /\ []((~initRet.called \/ ~initRet.ok) => NothingMade)
  /\ [][\A c \in Configs :
          HandlerInit(c) =>
            /\ initRet'.called
            /\ initRet'.ok <=> ~InitFails(c)
            /\ InitFails(c) =>
                 /\ ~IsReady'
                 /\ NothingMade'
                 /\ (initRet'.err = "") <=> (c.parses /\ ~c.Enabled)
            /\ ~InitFails(c) =>
                 /\ IsReady' /\ loop' = "running" /\ initRet'.err = ""]_vars

\* Init has failed on missing credentials; a receipt submitted afterwards was
\* dropped and the handler is not ready.
C12_Witness ==
  /\ initRet.called /\ ~initRet.ok
  /\ initRet.err = "missing credentials"
  /\ ~IsReady
  /\ loop = "none"
  /\ \E d \in dropped : d.kind = "receipt" /\ ~d.made

(***************************************************************************)
(* Further properties of the Notification Sender, checked under SpecSend.  *)
(***************************************************************************)
\* The positions of a sequence that satisfy a test, in increasing order.
RECURSIVE Positions(_, _, _)
Positions(seq, Test(_), n) ==
  IF n = 0 THEN <<>>
  ELSE IF Test(seq[n]) THEN Append(Positions(seq, Test, n - 1), n)
  ELSE Positions(seq, Test, n - 1)

\* The index of the first return that ends the batch, Len(rets) + 1 if none.
FirstAbort(rets) ==
  IF \E j \in 1..Len(rets) : Aborting(rets[j])
    THEN CHOOSE j \in 1..Len(rets) :
           /\ Aborting(rets[j])
           /\ \A h \in 1..(j - 1) : ~Aborting(rets[h])
    ELSE Len(rets) + 1

\* What the returns received so far lead to, whatever the mode: the deletes
\* made or about to be made, and whether the batch is over.
DeletesDue(T) ==
  LET inv == Positions(T.rets, InvalidToken, Len(T.rets))
  IN  [k \in 1..Len(inv) |->
         [uid |-> T.uids[inv[k]], token |-> T.messages[inv[k]].Token]]

\* C13: with dry_run set every call of the sender is SendDryRun and none is
\* Send, without it every call is Send and none is SendDryRun; what follows
\* from the returns is the same in both modes: the batch ends at the first
\* return that is neither nil nor an invalid token, and each invalid token
\* before it is deleted, the delete of the last return possibly still to be
\* made.
C13_DryRunOnlyChangesTheCall ==
  \A t \in SendTasks :
    LET T == tasks[t]
        due == DeletesDue(T)
    IN  /\ \A j \in 1..Len(T.calls) :
             T.calls[j].op = IF config.DryRun THEN "SendDryRun" ELSE "Send"
        /\ FirstAbort(T.rets) >= Len(T.rets)
        /\ FirstAbort(T.rets) = Len(T.rets) => T.pc = "done"
        /\ T.dels = IF T.pc = "delete" THEN SubSeq(due, 1, Len(due) - 1)
                                       ELSE due
        /\ T.pc = "delete" => InvalidToken(T.rets[Len(T.rets)])

\* In dry-run mode: the first validation call returned an invalid token, which
\* was deleted, and the second one a transient error, which ended the batch.
C13_Witness ==
  \E t \in SendTasks :
    /\ config.DryRun
    /\ Len(tasks[t].messages) = 3
    /\ Len(tasks[t].calls) = 2
    /\ tasks[t].calls[2].op = "SendDryRun"
    /\ tasks[t].rets = <<Failure({"Unregistered"}), Failure({"Unavailable"})>>
    /\ Len(tasks[t].dels) = 1
    /\ tasks[t].pc = "done"

\* The outcome the classification has to give: Transient before ConfigError
\* before InvalidToken, Unknown when no predicate holds.
Outcome(err) ==
  IF err.is \cap TransientPreds # {} THEN "Transient"
  ELSE IF err.is \cap ConfigPreds # {} THEN "ConfigError"
  ELSE IF "Unregistered" \in err.is THEN "InvalidToken"
  ELSE "Unknown"

\* The line by which each outcome is seen in the log.
OutcomeLine ==
  [Transient |-> "fcm transient failure:", ConfigError |-> "fcm invalid config:",
   InvalidToken |-> "fcm invalid token:", Unknown |-> "fcm unrecognized error:"]

IsOutcomeLine(l) == \E o \in DOMAIN OutcomeLine : l.msg = OutcomeLine[o]
IsFailure(err) == ~err.nil

\* C14: every failed send, whatever the answers of the seven predicates on
\* its error, has exactly one of the four outcomes: it writes one outcome
\* line, that of Transient if a transient predicate holds, else that of
\* ConfigError if a configuration predicate holds, else that of InvalidToken
\* if the token is unregistered, else that of Unknown; and only InvalidToken
\* goes on to the delete, the three others end the batch.
C14_ClassificationTotalByPriority ==
  \A t \in SendTasks :
    LET T == tasks[t]
        failed == Positions(T.rets, IsFailure, Len(T.rets))
        lines == SelectSeq(T.logs, IsOutcomeLine)
    IN  /\ Len(lines) = Len(failed)
        /\ \A k \in 1..Len(failed) :
             LET o == Outcome(T.rets[failed[k]])
             IN  /\ lines[k].msg = OutcomeLine[o]
                 /\ o = "InvalidToken" =>
                      \/ T.pc = "delete" /\ failed[k] = Len(T.rets)
                      \/ DeletesFor(T, failed[k]) # {}
                 /\ o # "InvalidToken" =>
                      /\ T.pc = "done" /\ failed[k] = Len(T.rets)
                      /\ DeletesFor(T, failed[k]) = {}

\* A send failed with an error for which a transient predicate, a
\* configuration predicate and the unregistered predicate all hold: it was
\* taken as transient.  The send before it failed on the unregistered
\* predicate alone.
C14_Witness ==
  \E t \in SendTasks :
    /\ tasks[t].rets = <<Failure({"Unregistered"}),
                         Failure({"Unavailable", "InvalidArgument", "Unregistered"})>>
    /\ tasks[t].logs[Len(tasks[t].logs)].msg = "fcm transient failure:"
    /\ tasks[t].pc = "done"

IsDeleteFailedLine(l) == l.msg = "fcm failed to delete invalid token:"
IsFalse(b) == b = FALSE

\* C16: a delete that fails is logged and nothing more: each delete made has
\* one outcome, the failures are the lines "failed to delete" of the log, no
\* message is deleted twice, and after the delete for message m, failed or
\* not, the sender is at message m+1 or beyond, or is over when m was the
\* last message.
C16_DeleteFailureNotEscalated ==
  \A t \in SendTasks :
    LET T == tasks[t]
        inv == Positions(T.rets, InvalidToken, Len(T.rets))
    IN  /\ Len(T.delok) = Len(T.dels)
        /\ Len(SelectSeq(T.logs, IsDeleteFailedLine))
             = Len(SelectSeq(T.delok, IsFalse))
        /\ \A m \in 1..Len(T.messages) : Cardinality(DeletesFor(T, m)) <= 1
        /\ \A j \in 1..Len(T.dels) :
             LET m == inv[j]
             IN  /\ T.dels[j].token = T.messages[m].Token
                 /\ m < Len(T.messages) =>
                      /\ T.i > m
                      /\ (T.pc = "send" /\ T.i = m + 1) \/ Len(T.calls) > m
                 /\ m = Len(T.messages) => T.pc = "done"

\* The delete for the first message failed and was logged, and the send of
\* the second message was made all the same and succeeded.
C16_Witness ==
  \E t \in SendTasks :
    /\ tasks[t].rets = <<Failure({"Unregistered"}), NoErr>>
    /\ tasks[t].delok = <<FALSE>>
    /\ tasks[t].dels = <<[uid |-> 101, token |-> "t1"]>>
    /\ Len(tasks[t].calls) = 2
    /\ \E k \in 1..Len(tasks[t].logs) : IsDeleteFailedLine(tasks[t].logs[k])

\* C18: with N the number of prepared messages and k the index of the first
\* return that is a transient, configuration or unknown error: the calls
\* made are those for messages 1, 2, ... in order, never beyond message
\* min(k, N), and all of 1..min(k, N) once the sender is over; the deletes
\* made are, in order, one for each invalid token returned before k; the
\* delete for message m is made while call m is the last call made and has
\* returned, and call m+1 is made only after it; so the deletes are never
\* more than the failed calls.
C18_CallsAndDeletesInStep ==
  \A t \in SendTasks :
    LET T == tasks[t]
        msgs == PrepareNotifications(T.item).messages
        N == Len(msgs)
        k == FirstAbort(T.rets)
        inv == Positions(T.rets, InvalidToken, Len(T.rets))
        due == DeletesDue(T)
    IN  /\ \A j \in 1..Len(T.calls) : T.calls[j].msg = msgs[j]
        /\ Len(T.calls) <= Min(k, N)
        /\ T.pc = "done" =>
             Len(T.calls) = IF k <= Len(T.rets) THEN k ELSE N
        /\ Len(T.dels) <= Len(due)
        /\ \A j \in 1..Len(T.dels) : T.dels[j] = due[j]
        /\ \A j \in 1..Len(inv) :
             /\ inv[j] < k
             /\ Len(T.calls) > inv[j] => Len(T.dels) >= j
             /\ Len(T.dels) < j =>
                  T.pc = "delete" /\ Len(T.calls) = inv[j] /\ Len(T.rets) = inv[j]
        /\ Len(T.dels) <= Len(Positions(T.rets, IsFailure, Len(T.rets)))

\* Three messages: the first two sends returned invalid tokens, each deleted
\* before the next send, and the third an unknown error that ended the batch.
C18_Witness ==
  \E t \in SendTasks :
    /\ tasks[t].rets = <<Failure({"Unregistered"}), Failure({"Unregistered"}),
                         Failure({})>>
    /\ tasks[t].dels = <<[uid |-> 101, token |-> "t1"],
                         [uid |-> 102, token |-> "t2"]>>
    /\ Len(tasks[t].calls) = 3
    /\ tasks[t].pc = "done"

(***************************************************************************)
(* Further properties of the Subscription Manager, checked under SpecSub.  *)
(***************************************************************************)
IsSubErrorLine(l) == l.msg = "fcm sub/unsub error"

\* The lines the first n returns of a goroutine call for: for each call that
\* succeeded, one line per entry of its response, with the reason of the
\* entry and the token at the entry's index (counted from 0) in the list
\* handed to that call.
RECURSIVE ErrorLines(_, _)
ErrorLines(T, n) ==
  IF n = 0 THEN <<>>
  ELSE ErrorLines(T, n - 1) \o
         (IF T.rets[n].failed THEN <<>>
          ELSE [k \in 1..Len(T.rets[n].resp.Errors) |->
                  [msg |-> "fcm sub/unsub error",
                   token |-> T.calls[n].tokens[T.rets[n].resp.Errors[k].Index + 1],
                   reason |-> T.rets[n].resp.Errors[k].Reason]])

\* C15: the partial failures of a bulk call that succeeded are logged and
\* nothing else: the error lines of the log are, in order, one per failed
\* index of each response, with its reason and the token at that index of
\* the list handed to that call; no delete is ever made, no call is made
\* twice, and a call that succeeded with failed indexes is followed by the
\* call for the next channel like any other success.
C15_PartialFailureOnlyLogged ==
  \A t \in SubTasks :
    LET T == tasks[t]
    IN  /\ SelectSeq(T.logs, IsSubErrorLine) = ErrorLines(T, Len(T.rets))
        /\ T.dels = <<>> /\ T.delok = <<>>
        /\ \A j, h \in 1..Len(T.calls) : j # h => T.calls[j] # T.calls[h]
        /\ FixedChannel(T) => Len(T.calls) <= 1
        /\ FixedDevice(T) =>
             \A j \in 1..Len(T.rets) :
               (~T.rets[j].failed /\ j < Len(T.resolved)) =>
                 \/ T.pc = "subB" /\ T.i = j + 1
                 \/ Len(T.calls) > j

\* A user with more devices than the batch size: the one call succeeded with
\* the first and the last device of the truncated list failed, and the log
\* names the reason with "d1" and with the last token of that list.
C15_Witness ==
  \E t \in SubTasks :
    /\ Len(tasks[t].resolved) > subBatchSize
    /\ tasks[t].rets =
         <<[failed |-> FALSE,
            resp |-> Resp(<<ErrInfo(0), ErrInfo(subBatchSize - 1)>>)]>>
    /\ SelectSeq(tasks[t].logs, IsSubErrorLine) =
         <<[msg |-> "fcm sub/unsub error", token |-> "d1",
            reason |-> "NOT_FOUND"],
           [msg |-> "fcm sub/unsub error",
            token |-> tasks[t].resolved[subBatchSize], reason |-> "NOT_FOUND"]>>
    /\ tasks[t].pc = "done"

\* The request names a channel and a device.
ChannelAndDevice(T) == T.item.req.Channel # "" /\ T.item.req.DeviceID # ""

\* C20: a request with both a channel and a device is handled as one with
\* the channel alone: ChannelsForUser is never called, the device of the
\* request is never used, and the only call ever made is the one bulk call
\* of the user's devices, cut to the batch size, against the channel of the
\* request, made whenever the user has a device.
C20_ChannelWinsOverDevice ==
  \A t \in SubTasks :
    LET T == tasks[t]
        req == T.item.req
        n == Min(Len(T.resolved), subBatchSize)
    IN  ChannelAndDevice(T) =>
          /\ \A k \in 1..Len(T.lookups) : T.lookups[k] = "DevicesForUser"
          /\ Len(T.lookups) <= 1
          /\ T.device = "" /\ T.channels = <<>> /\ T.bdevices = <<>>
          /\ T.pc \notin {"subB", "inSubB"}
          /\ Len(T.calls) <= 1
          /\ \A j \in 1..Len(T.calls) :
               T.calls[j] = [op |-> IF req.Unsub THEN "UnsubscribeFromTopic"
                                                ELSE "SubscribeToTopic",
                             tokens |-> SubSeq(T.resolved, 1, n),
                             topic |-> req.Channel]
          /\ T.pc = "done" => Len(T.calls) = IF n > 0 THEN 1 ELSE 0

\* The request names "topicA" and the device "d1"; the user has three
\* devices, and the one call made was the unsubscription of the three from
\* "topicA".
C20_Witness ==
  \E t \in SubTasks :
    /\ tasks[t].item.req.Channel = "topicA"
    /\ tasks[t].item.req.DeviceID = "d1"
    /\ tasks[t].item.req.Unsub
    /\ tasks[t].lookups = <<"DevicesForUser">>
    /\ tasks[t].calls =
         <<[op |-> "UnsubscribeFromTopic", tokens |-> <<"d1", "d2", "d3">>,
            topic |-> "topicA"]>>
    /\ tasks[t].pc = "done"

\* No call of Stop() made after the successful Init has got to its send yet.
NoStopYet == stops.returned = 0 /\ stops.blocked = 0

\* The loop is gone and the slot of handler.stop is taken.
SlotLeftFull == loop = "exited" /\ stop = 1

\* C19: handler.stop holds one value at most, and the loop takes one at
\* most, exiting as it does; the first Stop() after a successful Init finds
\* the slot free and returns at once, whatever the loop, the queues and the
\* goroutines are doing; once the loop has exited and the slot holds a value
\* again, that stays so for ever: every Stop() made then blocks, and no
\* blocked caller is ever released.
C19_OneSlotOneSignal ==
  /\ [](stop \in {0, 1})
  /\ []((made /\ NoStopYet) => stop = 0)
  /\ [][stop' < stop =>
          loop = "running" /\ loop' = "exited" /\ stop' = stop - 1]_vars
  /\ [][loop = "exited" => loop' = "exited" /\ stop' >= stop]_vars
  /\ [][(made /\ NoStopYet /\ stops' # stops) =>
          stops' = [stops EXCEPT !.returned = 1]]_vars
  /\ [][SlotLeftFull =>
          /\ SlotLeftFull'
          /\ stops'.returned = stops.returned
          /\ stops'.blocked >= stops.blocked
          /\ stops' # stops => stops'.blocked = stops.blocked + 1]_vars

\* The first Stop() returned and the loop took its signal and exited; the
\* second Stop() returned too, leaving its value in the slot; the third is
\* blocked.
C19_Witness ==
  /\ made
  /\ SlotLeftFull
  /\ stops = [returned |-> 2, blocked |-> 1, stuck |-> 0]

(***************************************************************************)
(* Properties of the control loop, checked under SpecDispatch.             *)
(***************************************************************************)
\* The step starts one goroutine of this kind for the oldest item of queue q,
\* which becomes q2, and leaves the goroutines started before as they were.
Hands(q, q2, kind) ==
  /\ q # <<>>
  /\ q2 = Tail(q)
  /\ Len(tasks') = Len(tasks) + 1
  /\ SubSeq(tasks', 1, Len(tasks)) = tasks
  /\ tasks'[Len(tasks')].kind = kind
  /\ tasks'[Len(tasks')].item = Head(q)
  /\ tasks'[Len(tasks')].pc = "start"

DroppedIds == {d.id : d \in dropped}

\* C17: every step that takes an item from a queue or starts a goroutine
\* takes the oldest item of one queue and starts one goroutine for it,
\* sendFcm for the receipts queue and processSubscription for the requests
\* queue, leaving the other queue alone; no two goroutines have the same
\* item, no goroutine has an item that is still queued, every goroutine has
\* an item of an accepted submission, and those of one kind were started in
\* the order of submission; so the goroutines are never more than the
\* accepted submissions.
C17_DispatchAtMostOnce ==
  /\ [][(\/ Len(input') < Len(input)
          \/ Len(channel') < Len(channel)
          \/ Len(tasks') # Len(tasks)) =>
          \/ Hands(input, input', "send") /\ channel' = channel
          \/ Hands(channel, channel', "sub") /\ input' = input]_vars
  /\ [](\A a, b \in 1..Len(tasks) :
          /\ a # b => tasks[a].id # tasks[b].id
          /\ (a < b /\ tasks[a].kind = tasks[b].kind) => tasks[a].id < tasks[b].id)
  /\ [](SpawnedIds \cap QueuedIds = {})
  /\ [](SpawnedIds \subseteq (1..nsubmit) \ DroppedIds)
  /\ [](Len(tasks) <= nsubmit - Cardinality(dropped))

\* Two receipts and then two requests were submitted; the loop has started a
\* goroutine for each of the four, the first request before the second
\* receipt, and none of the four is queued any more.
C17_Witness ==
  /\ Len(tasks) >= 4
  /\ QueuedIds \cap {1, 2, 3, 4} = {}
  /\ tasks[1].kind = "send" /\ tasks[1].id = 1
  /\ tasks[2].kind = "sub" /\ tasks[2].id = 3
  /\ tasks[3].kind = "send" /\ tasks[3].id = 2
  /\ tasks[4].kind = "sub" /\ tasks[4].id = 4

====
